---- MODULE Spec2Model ----
(***************************************************************************)
(* Model of the structure-file subsystem of timeax/scaffold:               *)
(*   - parseStructureAst    (src/src/ast/parser.ts)   recovery parser      *)
(*   - parseStructureText   (src/unnamed/part_006)    fail-fast parser     *)
(*   - formatStructureText  (src/src/ast/format.ts)   canonical formatter  *)
(* Texts are sequences of one-character strings, so that splitting,        *)
(* measuring, tokenising and re-printing are computed as the code does.    *)
(***************************************************************************)
EXTENDS Integers, Sequences, FiniteSets, TLC

VARIABLES text, indentStep, pc, ast, astMode, ff, opts, out, out2,
          disk, cache, structure, groupName, lastRun, createdEver, kept,
          timer, orphans, running, pending, inflight, wlog

parserVars == <<text, indentStep, pc, ast, astMode, ff, opts, out, out2>>

applyVars == <<disk, cache, structure, groupName, lastRun, createdEver, kept>>

watchVars == <<timer, orphans, running, pending, inflight, wlog>>

vars == <<parserVars, applyVars, watchVars>>

\* ------------------------------------------------------------------------
\* Bounds of the explored inputs
\* ------------------------------------------------------------------------
MaxLines == 3
MaxIndent == 4
MaxRuns == 4
MaxTokens == 3

\* ------------------------------------------------------------------------
\* Generic string helpers (JavaScript String methods on char sequences)
\* ------------------------------------------------------------------------
Undef == <<"undefined">>

Min(a, b) == IF a < b THEN a ELSE b

Max(a, b) == IF a > b THEN a ELSE b

\* s.slice(from) with a 0-based index
SliceFrom(s, from) == SubSeq(s, from + 1, Len(s))

\* s.slice(0, to) with a 0-based exclusive end
SliceTo(s, to) == SubSeq(s, 1, to)

StartsWith(s, p) == Len(s) >= Len(p) /\ SubSeq(s, 1, Len(p)) = p

EndsWith(s, p) == Len(s) >= Len(p) /\ SubSeq(s, Len(s) - Len(p) + 1, Len(s)) = p

Includes(s, c) == \E i \in 1..Len(s) : s[i] = c

\* the characters the regex class \s matches, among those of the alphabet
IsWs(c) == c \in {" ", "\t", "\r"}

\* number of leading characters matched by \s*
LeadingWs(s) ==
    IF \A i \in 1..Len(s) : IsWs(s[i]) THEN Len(s)
    ELSE (CHOOSE i \in 1..Len(s) : ~IsWs(s[i]) /\ \A j \in 1..(i - 1) : IsWs(s[j])) - 1

\* length of s without the trailing characters of class C
LenWithoutTrailing(s, C) ==
    IF \A i \in 1..Len(s) : s[i] \in C THEN 0
    ELSE CHOOSE i \in 1..Len(s) : s[i] \notin C /\ \A j \in (i + 1)..Len(s) : s[j] \in C

TrimStart(s) == SubSeq(s, LeadingWs(s) + 1, Len(s))

TrimEnd(s) == SubSeq(s, 1, LenWithoutTrailing(s, {" ", "\t", "\r"}))

Trim(s) == TrimEnd(TrimStart(s))

\* s.replace(/[ \t]+$/g, '')
StripTrailingBlanks(s) == SubSeq(s, 1, LenWithoutTrailing(s, {" ", "\t"}))

\* s.replace(/\/+$/, '')
StripTrailingSlashes(s) == SubSeq(s, 1, LenWithoutTrailing(s, {"/"}))

\* s.replace(/\/$/, '')
StripOneSlash(s) == IF s # <<>> /\ s[Len(s)] = "/" THEN SubSeq(s, 1, Len(s) - 1) ELSE s

\* s.split(sep) for a one-character separator: always at least one piece
RECURSIVE SplitOn(_, _)
SplitOn(s, sep) ==
    IF \E i \in 1..Len(s) : s[i] = sep
    THEN LET i == CHOOSE k \in 1..Len(s) : s[k] = sep /\ \A j \in 1..(k - 1) : s[j] # sep
         IN  <<SubSeq(s, 1, i - 1)>> \o SplitOn(SubSeq(s, i + 1, Len(s)), sep)
    ELSE <<s>>

\* trimmed.split(/\s+/) of a string with no leading or trailing whitespace
RECURSIVE SplitWs(_)
SplitWs(s) ==
    IF \E i \in 1..Len(s) : IsWs(s[i])
    THEN LET i == CHOOSE k \in 1..Len(s) : IsWs(s[k]) /\ \A j \in 1..(k - 1) : ~IsWs(s[j])
         IN  <<SubSeq(s, 1, i - 1)>> \o SplitWs(TrimStart(SubSeq(s, i, Len(s))))
    ELSE <<s>>

\* pieces.join(sep)
RECURSIVE Join(_, _)
Join(pieces, sep) ==
    IF pieces = <<>> THEN <<>>
    ELSE IF Len(pieces) = 1 THEN pieces[1]
    ELSE pieces[1] \o sep \o Join(Tail(pieces), sep)

\* ' '.repeat(n)
Spaces(n) == [i \in 1..n |-> " "]

\* text.split(/\r?\n/): the pieces between line feeds, a carriage return just
\* before a line feed belonging to the separator
SplitLines(s) ==
    LET NL == {i \in 1..Len(s) : s[i] = "\n"}
        n == Cardinality(NL)
        nl(k) == CHOOSE i \in NL : Cardinality({j \in NL : j <= i}) = k
        first(k) == IF k = 1 THEN 1 ELSE nl(k - 1) + 1
        last(k) == IF k = n + 1 THEN Len(s)
                   ELSE IF nl(k) - 1 >= first(k) /\ s[nl(k) - 1] = "\r" THEN nl(k) - 2
                   ELSE nl(k) - 1
    IN  [k \in 1..(n + 1) |-> SubSeq(s, first(k), last(k))]

\* toPosixPath: p.replace(/\\/g, '/')
toPosixPath(p) == [i \in 1..Len(p) |-> IF p[i] = "\\" THEN "/" ELSE p[i]]

\* raw.match(/^(\s*)(.*)$/): '.' does not match a line terminator, so a line
\* holding a lone carriage return after its content does not match at all.
LineMatch(raw) ==
    LET k == LeadingWs(raw)
        rest == SubSeq(raw, k + 1, Len(raw))
    IN  IF Includes(rest, "\r")
        THEN [matched |-> FALSE, indentRaw |-> <<>>, content |-> <<>>]
        ELSE [matched |-> TRUE, indentRaw |-> SubSeq(raw, 1, k), content |-> rest]

\* ------------------------------------------------------------------------
\* parser.ts: line classification
\* ------------------------------------------------------------------------
Modes == {"loose", "strict"}

\* measureIndent: a space counts 1, a tab counts indentStep, anything else 0
measureSpaces(rawIndent, step) ==
    Cardinality({i \in 1..Len(rawIndent) : rawIndent[i] = " "})
    + step * Cardinality({i \in 1..Len(rawIndent) : rawIndent[i] = "\t"})

measureIndent(rawIndent, step) ==
    [indentSpaces |-> measureSpaces(rawIndent, step), hasTabs |-> Includes(rawIndent, "\t")]

\* a variant that knows only '#' comments
LineKind_HashOnly(content) ==
    LET trimmed == Trim(content)
    IN  IF trimmed = <<>> THEN "blank"
        ELSE IF StartsWith(trimmed, <<"#">>) THEN "comment"
        ELSE "entry"

\* kind of a line from its content (the part after the leading whitespace)
LineKind(content) ==
    LET trimmed == Trim(content)
    IN  IF trimmed = <<>> THEN "blank"
        ELSE IF StartsWith(trimmed, <<"#">>) \/ StartsWith(trimmed, <<"/", "/">>) THEN "comment"
        ELSE "entry"

\* one iteration of the first pass of parseStructureAst
ClassifyLine(raw, lineNo, step) ==
    LET Line(m, mi) ==
            [index |-> lineNo - 1, lineNo |-> lineNo, raw |-> raw, kind |-> LineKind(m.content),
             indentSpaces |-> mi.indentSpaces, content |-> m.content, hasTabs |-> mi.hasTabs]
        Measured(m) == Line(m, measureIndent(m.indentRaw, step))
    IN  Measured(LineMatch(raw))

ClassifyLines(rawLines, step) ==
    [i \in 1..Len(rawLines) |-> ClassifyLine(rawLines[i], i, step)]

TabsDiag(lineNo, mode) ==
    [line |-> lineNo, severity |-> IF mode = "strict" THEN "warning" ELSE "info",
     code |-> "indent-tabs", msg |-> <<"tabs">>]

\* diagnostics pushed by the first pass, in line order
RECURSIVE TabsDiagnostics(_, _)
TabsDiagnostics(lines, mode) ==
    IF lines = <<>> THEN <<>>
    ELSE (IF Head(lines).hasTabs THEN <<TabsDiag(Head(lines).lineNo, mode)>> ELSE <<>>)
         \o TabsDiagnostics(Tail(lines), mode)

\* ------------------------------------------------------------------------
\* parser.ts: computeDepth
\* ------------------------------------------------------------------------
\* a variant that never escalates
StructSeverity_AlwaysWarning(mode) == "warning"

StructSeverity(mode) == IF mode = "strict" THEN "error" ELSE "warning"

InitDepthCtx == [hasLast |-> FALSE, lastIndentSpaces |-> 0, lastDepth |-> 0, lastWasFile |-> FALSE]

\* a variant that truncates
MathRound_Floor(a, b) == a \div b

\* Math.round(a / b) for a >= 0, b > 0 (halves round up)
MathRound(a, b) == (2 * a + b) \div (2 * b)

\* a variant that nests the entry under the file
ChildOfFileDepth_Nested(prevDepth) == prevDepth + 1

ChildOfFileDepth(prevDepth) == prevDepth

SkipLevelFires(diff, step) == diff > step

DedentDepth(prevDepth, diff, step) == Max(prevDepth - MathRound(diff, step), 0)

computeDepth(line, step, mode, ctx) ==
    LET spaces == IF line.indentSpaces < 0 THEN 0 ELSE line.indentSpaces
        prevSpaces == ctx.lastIndentSpaces
        prevDepth == ctx.lastDepth
        res ==
            IF ~ctx.hasLast THEN [depth |-> 0, diags |-> <<>>]
            ELSE IF spaces > prevSpaces THEN
                IF ctx.lastWasFile
                THEN [depth |-> ChildOfFileDepth(prevDepth),
                      diags |-> <<[line |-> line.lineNo, severity |-> StructSeverity(mode),
                                   code |-> "child-of-file-loose", msg |-> <<"under-file">>]>>]
                ELSE [depth |-> prevDepth + 1,
                      diags |-> IF SkipLevelFires(spaces - prevSpaces, step)
                                THEN <<[line |-> line.lineNo, severity |-> StructSeverity(mode),
                                        code |-> "indent-skip-level",
                                        msg |-> <<"jumps", prevSpaces, spaces>>]>>
                                ELSE <<>>]
            ELSE IF spaces = prevSpaces THEN [depth |-> prevDepth, diags |-> <<>>]
            ELSE [depth |-> DedentDepth(prevDepth, prevSpaces - spaces, step),
                  diags |-> IF (prevSpaces - spaces) % step # 0
                            THEN <<[line |-> line.lineNo, severity |-> StructSeverity(mode),
                                    code |-> "indent-misaligned",
                                    msg |-> <<"decreases", prevSpaces, spaces, step>>]>>
                            ELSE <<>>]
    IN  [depth |-> res.depth, diags |-> res.diags,
         ctx |-> [hasLast |-> TRUE, lastIndentSpaces |-> spaces, lastDepth |-> res.depth,
                  lastWasFile |-> ctx.lastWasFile]]

\* ------------------------------------------------------------------------
\* parser.ts: inline comments and entry lines
\* ------------------------------------------------------------------------
\* is position i (1-based) the start of an inline comment
IsCommentStart(content, i) ==
    LET ch == content[i]
        prevBlank == i > 1 /\ content[i - 1] \in {" ", "\t"}
    IN  \/ ch = "#" /\ i > 1 /\ prevBlank
        \/ ch = "/" /\ i + 1 <= Len(content) /\ content[i + 1] = "/" /\ prevBlank

\* mapThrough: 0-based index of the first inline comment marker, or -1
mapThrough(content) ==
    IF \E i \in 1..Len(content) : IsCommentStart(content, i)
    THEN (CHOOSE i \in 1..Len(content) :
              IsCommentStart(content, i) /\ \A j \in 1..(i - 1) : ~IsCommentStart(content, j)) - 1
    ELSE 0 - 1

extractInlineCommentParts(content) ==
    LET cutIndex == mapThrough(content)
    IN  IF cutIndex = 0 - 1
        THEN [contentWithoutComment |-> content, inlineComment |-> Undef]
        ELSE [contentWithoutComment |-> SliceTo(content, cutIndex),
              inlineComment |-> SliceFrom(content, cutIndex)]

P_stub == <<"@", "s", "t", "u", "b", ":">>

P_include == <<"@", "i", "n", "c", "l", "u", "d", "e", ":">>

P_exclude == <<"@", "e", "x", "c", "l", "u", "d", "e", ":">>

\* val.split(',').map(s => s.trim()).filter(Boolean)
CsvItems(val) ==
    LET pieces == SplitOn(val, ",")
        trimmed == [i \in 1..Len(pieces) |-> Trim(pieces[i])]
    IN  SelectSeq(trimmed, LAMBDA x : x # <<>>)

\* a variant in which the first @stub: token wins
StubOf_FirstWins(acc, token) ==
    IF acc.stub # Undef THEN acc.stub ELSE SliceFrom(token, Len(P_stub))

\* stub = token.slice('@stub:'.length): a later token overwrites an earlier
StubOf(acc, token) == SliceFrom(token, Len(P_stub))

\* the annotation loop of parseEntryLine; acc = [stub, include, exclude, diags]
RECURSIVE ParseAnnotations(_, _, _)
ParseAnnotations(tokens, lineNo, acc) ==
    IF tokens = <<>> THEN acc
    ELSE LET token == Head(tokens)
             nxt ==
                IF StartsWith(token, P_stub)
                THEN [acc EXCEPT !.stub = StubOf(acc, token)]
                ELSE IF StartsWith(token, P_include)
                THEN [acc EXCEPT !.include = @ \o CsvItems(SliceFrom(token, Len(P_include)))]
                ELSE IF StartsWith(token, P_exclude)
                THEN [acc EXCEPT !.exclude = @ \o CsvItems(SliceFrom(token, Len(P_exclude)))]
                ELSE IF StartsWith(token, <<"@">>)
                THEN [acc EXCEPT !.diags = Append(@, [line |-> lineNo, severity |-> "info",
                                                      code |-> "unknown-annotation",
                                                      msg |-> <<"unknown", token>>])]
                ELSE acc
         IN  ParseAnnotations(Tail(tokens), lineNo, nxt)

\* a variant that only looks at the first character of the token
PathColonDiags_FirstChar(pathToken, lineNo, mode) ==
    IF Head(pathToken) = ":"
    THEN <<[line |-> lineNo, severity |-> StructSeverity(mode), code |-> "path-colon",
            msg |-> <<"colon">>]>>
    ELSE <<>>

PathColonDiags(pathToken, lineNo, mode) ==
    IF Includes(pathToken, ":")
    THEN <<[line |-> lineNo, severity |-> StructSeverity(mode), code |-> "path-colon",
            msg |-> <<"colon">>]>>
    ELSE <<>>

NoEntry == [isNull |-> TRUE, segmentName |-> <<>>, isDir |-> FALSE,
            stub |-> Undef, include |-> Undef, exclude |-> Undef]

parseEntryLine(line, step, mode, ctx) ==
    LET Entry(cd, pathToken, ann) ==
            [entry |-> [isNull |-> FALSE, segmentName |-> pathToken,
                        isDir |-> EndsWith(pathToken, <<"/">>),
                        stub |-> ann.stub,
                        include |-> IF ann.include # <<>> THEN ann.include ELSE Undef,
                        exclude |-> IF ann.exclude # <<>> THEN ann.exclude ELSE Undef],
             depth |-> cd.depth,
             diags |-> cd.diags \o PathColonDiags(pathToken, line.lineNo, mode) \o ann.diags,
             ctx |-> cd.ctx]
        Tokens(cd, parts) ==
            Entry(cd, parts[1],
                  ParseAnnotations(Tail(parts), line.lineNo,
                      [stub |-> Undef, include |-> <<>>, exclude |-> <<>>, diags |-> <<>>]))
        Parsed(cd, trimmed) ==
            IF trimmed = <<>>
            THEN [entry |-> NoEntry, depth |-> cd.depth, diags |-> cd.diags, ctx |-> cd.ctx]
            ELSE Tokens(cd, SplitWs(trimmed))
    IN  Parsed(computeDepth(line, step, mode, ctx),
               Trim(extractInlineCommentParts(line.content).contentWithoutComment))

\* ------------------------------------------------------------------------
\* parser.ts: attachNode.  The tree is a heap of nodes (a node's identity is
\* its index in `nodes`); rootNodes, children and stack hold identities,
\* parent = 0 is null and a stack slot 0 is an empty array slot.
\* ------------------------------------------------------------------------
\* a variant that never pops
PopTo_NoPop(stack, depth) == stack

\* while (stack.length > depth) stack.pop()
PopTo(stack, depth) == SubSeq(stack, 1, Min(Len(stack), depth))

\* a variant that never records the directory
SetSlot_NoPush(stack, depth, id) == stack

\* stack[depth] = id on a stack of length <= depth (missing slots stay empty)
RECURSIVE SetSlot(_, _, _)
SetSlot(stack, depth, id) ==
    IF Len(stack) >= depth THEN Append(stack, id) ELSE SetSlot(Append(stack, 0), depth, id)

\* stack[i] for a 0-based i; 0 when undefined
StackAt(stack, i) == IF i + 1 \in 1..Len(stack) THEN stack[i + 1] ELSE 0

NodePath(parentPath, entry) ==
    LET normalizedSegment == toPosixPath(StripTrailingSlashes(entry.segmentName))
        tail == IF entry.isDir THEN <<"/">> ELSE <<>>
    IN  IF parentPath # <<>>
        THEN parentPath \o <<"/">> \o normalizedSegment \o tail
        ELSE normalizedSegment \o tail

\* where the new node goes: the identity of the parent whose children list
\* receives it, 0 for rootNodes
AttachParent(stack, depth, nodes) ==
    LET candidate == StackAt(stack, depth - 1)
    IN  IF depth > 0 /\ candidate # 0 /\ nodes[candidate].type # "file" THEN candidate ELSE 0

\* a variant in which the new child replaces its siblings
PushChild_Replace(nodes, parent, id) ==
    IF parent # 0 THEN [nodes EXCEPT ![parent].children = <<id>>] ELSE nodes

\* parent.children.push(node)
PushChild(nodes, parent, id) ==
    IF parent # 0 THEN [nodes EXCEPT ![parent].children = Append(@, id)] ELSE nodes

\* st = [nodes, rootNodes, stack, diagnostics]
attachNode(entry, depth, line, st, mode) ==
    LET lineNo == line.lineNo
        stack1 == PopTo(st.stack, depth)
        candidate == StackAt(stack1, depth - 1)
        missing == depth > 0 /\ candidate = 0
        underFile == depth > 0 /\ candidate # 0 /\ st.nodes[candidate].type = "file"
        diags ==
            IF missing
            THEN <<[line |-> lineNo, severity |-> StructSeverity(mode),
                    code |-> "missing-parent", msg |-> <<"no-parent", depth>>]>>
            ELSE IF underFile
            THEN IF mode = "strict"
                 THEN <<[line |-> lineNo, severity |-> "error", code |-> "child-of-file",
                         msg |-> <<"cannot-attach">> \o st.nodes[candidate].path]>>
                 ELSE <<[line |-> lineNo, severity |-> "warning", code |-> "child-of-file-loose",
                         msg |-> <<"appears-under">> \o st.nodes[candidate].path]>>
            ELSE <<>>
        stack2 == IF underFile /\ mode # "strict"
                  THEN PopTo(stack1, st.nodes[candidate].depth)
                  ELSE stack1
        parent == AttachParent(stack1, depth, st.nodes)
        parentPath == IF parent # 0 THEN StripOneSlash(st.nodes[parent].path) ELSE <<>>
        id == Len(st.nodes) + 1
        node == [type |-> IF entry.isDir THEN "dir" ELSE "file",
                 name |-> entry.segmentName,
                 depth |-> depth,
                 line |-> lineNo,
                 path |-> NodePath(parentPath, entry),
                 parent |-> parent,
                 children |-> <<>>,
                 stub |-> IF entry.stub # Undef /\ entry.stub # <<>> THEN entry.stub ELSE Undef,
                 include |-> entry.include,
                 exclude |-> entry.exclude]
        nodes1 == Append(st.nodes, node)
        nodes2 == PushChild(nodes1, parent, id)
    IN  [nodes |-> nodes2,
         rootNodes |-> IF parent # 0 THEN st.rootNodes ELSE Append(st.rootNodes, id),
         stack |-> IF entry.isDir THEN SetSlot(PopTo(stack2, depth), depth, id) ELSE stack2,
         diagnostics |-> st.diagnostics \o diags]

\* ------------------------------------------------------------------------
\* parser.ts: parseStructureAst
\* ------------------------------------------------------------------------
\* one iteration of the entry loop; ps = [nodes, rootNodes, stack, diagnostics, ctx]
EntryStep(ps, line, step, mode) ==
    LET Attached(pe, at) ==
            [nodes |-> at.nodes, rootNodes |-> at.rootNodes, stack |-> at.stack,
             diagnostics |-> at.diagnostics,
             ctx |-> [pe.ctx EXCEPT !.lastWasFile = ~pe.entry.isDir]]
        Parsed(pe) ==
            IF pe.entry.isNull
            THEN [ps EXCEPT !.diagnostics = @ \o pe.diags, !.ctx = pe.ctx]
            ELSE Attached(pe, attachNode(pe.entry, pe.depth, line,
                                  [nodes |-> ps.nodes, rootNodes |-> ps.rootNodes,
                                   stack |-> ps.stack,
                                   diagnostics |-> ps.diagnostics \o pe.diags], mode))
    IN  IF line.kind # "entry" THEN ps
        ELSE Parsed(parseEntryLine(line, step, mode, ps.ctx))

RECURSIVE EntryLoop(_, _, _, _)
EntryLoop(ps, lines, step, mode) ==
    IF lines = <<>> THEN ps
    ELSE EntryLoop(EntryStep(ps, Head(lines), step, mode), Tail(lines), step, mode)

parseStructureAst(t, step, mode) ==
    LET Ast(lines, ps) ==
            [rootNodes |-> ps.rootNodes, nodes |-> ps.nodes, lines |-> lines,
             diagnostics |-> ps.diagnostics, options |-> [indentStep |-> step, mode |-> mode]]
        Entries(lines) ==
            Ast(lines, EntryLoop([nodes |-> <<>>, rootNodes |-> <<>>, stack |-> <<>>,
                                  diagnostics |-> TabsDiagnostics(lines, mode),
                                  ctx |-> InitDepthCtx],
                                 lines, step, mode))
    IN  Entries(ClassifyLines(SplitLines(t), step))

\* ------------------------------------------------------------------------
\* format.ts: formatStructureText
\* ------------------------------------------------------------------------
\* a variant that lists the siblings before the children
RECURSIVE flattenAstNodes_SiblingsFirst(_, _, _)
flattenAstNodes_SiblingsFirst(ids, level, nodes) ==
    IF ids = <<>> THEN <<>>
    ELSE LET n == nodes[Head(ids)]
         IN  <<[node |-> Head(ids), level |-> level]>>
             \o flattenAstNodes_SiblingsFirst(Tail(ids), level, nodes)
             \o (IF n.type = "dir" /\ n.children # <<>>
                 THEN flattenAstNodes_SiblingsFirst(n.children, level + 1, nodes)
                 ELSE <<>>)

\* flattenAstNodes: depth-first list of [node, level]
RECURSIVE flattenAstNodes(_, _, _)
flattenAstNodes(ids, level, nodes) ==
    IF ids = <<>> THEN <<>>
    ELSE LET n == nodes[Head(ids)]
         IN  <<[node |-> Head(ids), level |-> level]>>
             \o (IF n.type = "dir" /\ n.children # <<>>
                 THEN flattenAstNodes(n.children, level + 1, nodes)
                 ELSE <<>>)
             \o flattenAstNodes(Tail(ids), level, nodes)

\* a variant that joins list items with a comma and a space
AnnotationTokens_CommaSpace(node) ==
    (IF node.stub # Undef THEN <<P_stub \o node.stub>> ELSE <<>>)
    \o (IF node.include # Undef /\ node.include # <<>>
        THEN <<P_include \o Join(node.include, <<",", " ">>)>> ELSE <<>>)
    \o (IF node.exclude # Undef /\ node.exclude # <<>>
        THEN <<P_exclude \o Join(node.exclude, <<",", " ">>)>> ELSE <<>>)

AnnotationTokens(node) ==
    (IF node.stub # Undef THEN <<P_stub \o node.stub>> ELSE <<>>)
    \o (IF node.include # Undef /\ node.include # <<>>
        THEN <<P_include \o Join(node.include, <<",">>)>> ELSE <<>>)
    \o (IF node.exclude # Undef /\ node.exclude # <<>>
        THEN <<P_exclude \o Join(node.exclude, <<",">>)>> ELSE <<>>)

\* a variant that indents by one space per level
formatAstNodeLine_OneSpace(node, level, step, normalizeAnnotations) ==
    Spaces(level) \o node.name
    \o (IF normalizeAnnotations /\ AnnotationTokens(node) # <<>>
        THEN <<" ">> \o Join(AnnotationTokens(node), <<" ">>) ELSE <<>>)

formatAstNodeLine(node, level, step, normalizeAnnotations) ==
    LET indent == Spaces(step * level)
        tokens == AnnotationTokens(node)
    IN  IF ~normalizeAnnotations THEN indent \o node.name
        ELSE indent \o node.name
             \o (IF tokens # <<>> THEN <<" ">> \o Join(tokens, <<" ">>) ELSE <<>>)

\* number of "\r\n" pairs, and of "\n" not preceded by "\r"
CrlfCount(t) == Cardinality({i \in 2..Len(t) : t[i] = "\n" /\ t[i - 1] = "\r"})

LfCount(t) == Cardinality({i \in 1..Len(t) : t[i] = "\n" /\ (i = 1 \/ t[i - 1] # "\r")})

detectPreferredEol(t) ==
    IF CrlfCount(t) = 0 /\ LfCount(t) = 0 THEN <<"\n">>
    ELSE IF CrlfCount(t) > LfCount(t) THEN <<"\r", "\n">>
    ELSE <<"\n">>

getRawEol(t) == IF CrlfCount(t) > 0 THEN <<"\r", "\n">> ELSE <<"\n">>

ChooseEol(t, o) == IF o.normalizeNewlines THEN detectPreferredEol(t) ELSE getRawEol(t)

basicNormalize(t, o) ==
    LET lines == SplitLines(t)
        normalizedLines == IF o.trimTrailingWhitespace
                           THEN [i \in 1..Len(lines) |-> StripTrailingBlanks(lines[i])]
                           ELSE lines
    IN  Join(normalizedLines, ChooseEol(t, o))

\* number of entry lines among the first i lines
RECURSIVE EntryCount(_, _)
EntryCount(lines, i) ==
    IF i = 0 THEN 0
    ELSE EntryCount(lines, i - 1) + (IF lines[i].kind = "entry" THEN 1 ELSE 0)

\* a variant that glues the inline comment to the entry and trims non-entry
\* lines on both sides
MergeLine_Glued(a, rawLines, canonicalEntryLines, i, o) ==
    IF a.lines[i].kind = "entry"
    THEN LET entryIdx == EntryCount(a.lines, i)
             base == StripTrailingBlanks(canonicalEntryLines[entryIdx])
             inline == extractInlineCommentParts(a.lines[i].content).inlineComment
         IN  IF inline # Undef /\ inline # <<>> THEN base \o inline ELSE base
    ELSE Trim(rawLines[i])

\* one iteration of the merge loop: the output line for physical line i
MergeLine(a, rawLines, canonicalEntryLines, i, o) ==
    IF a.lines[i].kind = "entry"
    THEN LET entryIdx == EntryCount(a.lines, i)
             base == StripTrailingBlanks(canonicalEntryLines[entryIdx])
             inline == extractInlineCommentParts(a.lines[i].content).inlineComment
         IN  IF inline # Undef /\ inline # <<>> THEN base \o <<" ">> \o inline ELSE base
    ELSE IF o.trimTrailingWhitespace THEN StripTrailingBlanks(rawLines[i]) ELSE rawLines[i]

\* o = [indentStep, mode, normalizeNewlines, trimTrailingWhitespace, normalizeAnnotations]
formatStructureText(t, o) ==
    LET Merged(a, rawLines, flattened, canonicalEntryLines) ==
            IF Len(a.lines) # Len(rawLines)
               \/ Len(flattened) # EntryCount(a.lines, Len(rawLines))
            THEN [text |-> basicNormalize(t, o), ast |-> a]
            ELSE [text |-> Join([i \in 1..Len(rawLines) |->
                                    MergeLine(a, rawLines, canonicalEntryLines, i, o)],
                                ChooseEol(t, o)),
                  ast |-> a]
        Canonical(a, flattened) ==
            Merged(a, SplitLines(t), flattened,
                   [k \in 1..Len(flattened) |->
                       formatAstNodeLine(a.nodes[flattened[k].node], flattened[k].level,
                                         o.indentStep, o.normalizeAnnotations)])
        Flattened(a) == Canonical(a, flattenAstNodes(a.rootNodes, 0, a.nodes))
    IN  Flattened(parseStructureAst(t, o.indentStep, o.mode))

\* ------------------------------------------------------------------------
\* structure-txt.ts (src/unnamed/part_006): the fail-fast parser
\* ------------------------------------------------------------------------
stripInlineComment(content) ==
    LET cutIndex == mapThrough(content)
    IN  IF cutIndex = 0 - 1 THEN TrimEnd(content) ELSE TrimEnd(SliceTo(content, cutIndex))

NullLine == [isNull |-> TRUE, threw |-> FALSE, lineNo |-> 0, indentSpaces |-> 0,
             rawPath |-> <<>>, stub |-> Undef, include |-> Undef, exclude |-> Undef]

\* indent width as parseLine measures it: match[1].length
TextIndentWidth(indentRaw) == Len(indentRaw)

\* parseLine: null, a ParsedLine, or the path-colon error
parseLine(raw, lineNo) ==
    LET Line(m, pathToken, ann) ==
            [isNull |-> FALSE, threw |-> Includes(pathToken, ":"), lineNo |-> lineNo,
             indentSpaces |-> TextIndentWidth(m.indentRaw), rawPath |-> pathToken,
             stub |-> ann.stub,
             include |-> IF ann.include # <<>> THEN ann.include ELSE Undef,
             exclude |-> IF ann.exclude # <<>> THEN ann.exclude ELSE Undef]
        Tokens(m, parts) ==
            Line(m, parts[1],
                 ParseAnnotations(Tail(parts), lineNo,
                     [stub |-> Undef, include |-> <<>>, exclude |-> <<>>, diags |-> <<>>]))
        Content(m, trimmedRest, trimmed) ==
            IF ~m.matched \/ Trim(m.content) = <<>> THEN NullLine
            ELSE IF StartsWith(trimmedRest, <<"#">>) \/ StartsWith(trimmedRest, <<"/", "/">>)
            THEN NullLine
            ELSE IF trimmed = <<>> THEN NullLine
            ELSE Tokens(m, SplitWs(trimmed))
        Matched(m) == Content(m, TrimStart(m.content), Trim(stripInlineComment(m.content)))
    IN  Matched(LineMatch(raw))

NoError == [threw |-> FALSE, line |-> 0, kind |-> "none"]

\* first loop of parseStructureText: the ParsedLines, or the first error
RECURSIVE ParseLines(_, _, _)
ParseLines(rawLines, i, acc) ==
    IF i > Len(rawLines) THEN [err |-> NoError, parsed |-> acc]
    ELSE LET Parsed(p) ==
                 IF p.isNull THEN ParseLines(rawLines, i + 1, acc)
                 ELSE IF p.threw
                 THEN [err |-> [threw |-> TRUE, line |-> i, kind |-> "path-colon"],
                       parsed |-> acc]
                 ELSE ParseLines(rawLines, i + 1, Append(acc, p))
         IN  Parsed(parseLine(rawLines[i], i))

\* the level-skip test of the second loop
SkipCheckFails(level, stackLen) == level > stackLen /\ level # stackLen + 1

\* the error the second loop throws for ParsedLine p, if any
BuildError(p, step, fs) ==
    LET level == p.indentSpaces \div step
    IN  IF p.indentSpaces % step # 0 THEN "invalid-indent"
        ELSE IF SkipCheckFails(level, Len(fs.stack)) THEN "skip-level"
        ELSE IF level > 0 /\ ~(level \in 1..Len(fs.stack)) THEN "no-parent"
        ELSE IF level > 0 /\ ~fs.stack[level].isDir THEN "under-file"
        ELSE "none"

\* one iteration of the second loop; fs = [err, entries, rootEntries, stack]
BuildStep(fs, p, step) ==
    LET kind == BuildError(p, step, fs)
        level == p.indentSpaces \div step
        isDir == EndsWith(p.rawPath, <<"/">>)
        basePath == toPosixPath(StripOneSlash(p.rawPath))
        stack1 == SubSeq(fs.stack, 1, Min(Len(fs.stack), level))
        parent == IF stack1 # <<>> THEN stack1[Len(stack1)].entry ELSE 0
        parentPath == IF parent # 0 THEN StripOneSlash(fs.entries[parent].path) ELSE <<>>
        tail == IF isDir THEN <<"/">> ELSE <<>>
        fullPath == IF parentPath # <<>> THEN parentPath \o <<"/">> \o basePath \o tail
                    ELSE basePath \o tail
        id == Len(fs.entries) + 1
        entry == [type |-> IF isDir THEN "dir" ELSE "file", path |-> fullPath,
                  children |-> <<>>,
                  stub |-> IF p.stub # Undef /\ p.stub # <<>> THEN p.stub ELSE Undef,
                  include |-> p.include, exclude |-> p.exclude]
        entries1 == Append(fs.entries, entry)
        attachToParent == parent # 0 /\ fs.entries[parent].type = "dir"
    IN  IF kind # "none"
        THEN [fs EXCEPT !.err = [threw |-> TRUE, line |-> p.lineNo, kind |-> kind]]
        ELSE [err |-> fs.err,
              entries |-> IF attachToParent
                          THEN [entries1 EXCEPT ![parent].children = Append(@, id)]
                          ELSE entries1,
              rootEntries |-> IF parent = 0 THEN Append(fs.rootEntries, id) ELSE fs.rootEntries,
              stack |-> Append(stack1, [level |-> level, entry |-> id, isDir |-> isDir])]

RECURSIVE BuildLoop(_, _, _)
BuildLoop(fs, parsed, step) ==
    IF parsed = <<>> \/ fs.err.threw THEN fs
    ELSE BuildLoop(BuildStep(fs, Head(parsed), step), Tail(parsed), step)

\* parseStructureText: [threw, errLine, errKind, rootEntries, entries]; when it
\* throws no tree is returned
parseStructureText(t, step) ==
    LET Result(fs) ==
            [threw |-> fs.err.threw, errLine |-> fs.err.line, errKind |-> fs.err.kind,
             rootEntries |-> IF fs.err.threw THEN <<>> ELSE fs.rootEntries,
             entries |-> IF fs.err.threw THEN <<>> ELSE fs.entries]
        Built(pl) ==
            Result(IF pl.err.threw
                   THEN [err |-> pl.err, entries |-> <<>>, rootEntries |-> <<>>, stack |-> <<>>]
                   ELSE BuildLoop([err |-> NoError, entries |-> <<>>, rootEntries |-> <<>>,
                                   stack |-> <<>>], pl.parsed, step))
    IN  Built(ParseLines(SplitLines(t), 1, <<>>))

\* ------------------------------------------------------------------------
\* Explored inputs
\* ------------------------------------------------------------------------
IndentSteps == {2, 3}

\* sequences of 1..n elements of S
SeqsUpTo(S, n) == UNION {[1..k -> S] : k \in 1..n}

\* structure family: directories and files under every space indentation,
\* and an indented full-line comment
StructLines ==
    {Spaces(k) \o b : k \in 0..MaxIndent, b \in {<<"a", "/">>, <<"b">>}}
    \cup {<<" ", " ", " ", "#", "c">>}

StructTexts == {Join(ls, <<"\n">>) : ls \in SeqsUpTo(StructLines, MaxLines)}

\* tab family: indentation made of tabs, alone or mixed with spaces
TabLines ==
    {i \o b : i \in {<<>>, <<"\t">>, <<"\t", "\t">>, <<" ", "\t">>, <<" ", " ">>},
              b \in {<<"a", "/">>, <<"b">>}}
    \cup {<<"\t", "#">>, <<"\t">>}

TabTexts == {Join(ls, <<"\n">>) : ls \in SeqsUpTo(TabLines, MaxLines - 1)}

\* content family: comments, blanks, inline comments, annotations, colons
ContentLines ==
    { <<" ", " ">>,
      <<" ", "/", "/", "c", " ">>,
      <<"a", "/", " ", " ", "#", " ", "c", " ">>,
      <<" ", "b", "\t", "/", "/", "c">>,
      <<"b", "#", "c", " ">>,
      <<" ", "a", ":", "/">>,
      <<" ", " ", ":", "b", " ", "@", "x">>,
      <<"a", "/", " ">> \o P_stub \o <<"s">>,
      <<"b", " ">> \o P_exclude \o <<"x", " ">> \o P_stub \o <<"s", " ", " ">>
          \o P_include \o <<"y", ",", ",", "z", " ">> \o P_stub \o <<"t", " ">>
          \o P_include \o <<"w", " ", "#", "c">> }

Eols == {<<"\n">>, <<"\r", "\n">>}

ContentTexts == {Join(ls, e) : ls \in SeqsUpTo(ContentLines, MaxLines - 1), e \in Eols}

\* end-of-line family: three short lines under every mix of separators
EolTexts ==
    {<<"a", "/">> \o e1 \o <<" ", "b", " ">> \o e2 \o <<"#">> \o e3 : e1, e2 \in Eols,
                                                                  e3 \in Eols \cup {<<>>}}

\* options.indentStep ?? 2
DefaultIndentStep == 2

\* nested family: a root directory followed by MaxLines entries under every
\* space indentation
NestedLines == {Spaces(k) \o b : k \in 0..MaxIndent, b \in {<<"a", "/">>, <<"b">>}}

NestedTexts ==
    {<<"a", "/", "\n">> \o Join(ls, <<"\n">>) : ls \in [1..MaxLines -> NestedLines]}

\* annotation family: one entry with up to MaxTokens tokens after its path,
\* at top level or under a directory that has annotations of its own
TokenChoices ==
    {P_stub \o <<"s">>, P_stub \o <<"t">>, P_stub,
     P_include \o <<"x">>, P_include \o <<"y", ",", ",", "z">>,
     P_exclude \o <<"x">>, <<"@", "x">>, <<"c">>}

AnnotatedTexts ==
    {parent \o Join(<<<<"b">>>> \o tokens, <<" ">>) :
        parent \in {<<>>,
                    <<"a", "/", " ">> \o P_stub \o <<"p", " ">> \o P_include \o <<"q", " ">>
                        \o P_exclude \o <<"r", "\n", " ", " ">>},
        tokens \in {<<>>} \cup SeqsUpTo(TokenChoices, MaxTokens)}

\* mixed family: entries of several indentations, one with a tab, between
\* blank and full-line comment lines of any indentation
MixedTexts ==
    {Join(ls, <<"\n">>) :
        ls \in SeqsUpTo({<<"a", "/">>, <<" ", " ", "a", "/">>, <<" ", " ", "b">>,
                         <<" ", " ", " ", " ", " ", "b">>, <<"\t", "b">>,
                         <<>>, <<" ", " ", " ">>, <<"#", "c">>,
                         <<" ", " ", " ", " ", " ", " ", "/", "/", "c">>, <<"\t", "#">>},
                        MaxLines)}

DefaultOptions(step) ==
    [indentStep |-> step, mode |-> "loose", normalizeNewlines |-> TRUE,
     trimTrailingWhitespace |-> TRUE, normalizeAnnotations |-> TRUE]

AllOptions(step) ==
    [indentStep : {step}, mode : Modes, normalizeNewlines : BOOLEAN,
     trimTrailingWhitespace : BOOLEAN, normalizeAnnotations : BOOLEAN]

NoAst == [rootNodes |-> <<>>, nodes |-> <<>>, lines |-> <<>>, diagnostics |-> <<>>,
          options |-> [indentStep |-> 0, mode |-> "loose"]]

NoText == [threw |-> FALSE, errLine |-> 0, errKind |-> "none", rootEntries |-> <<>>,
           entries |-> <<>>]

\* ------------------------------------------------------------------------
\* applyStructure (src/unnamed/part_004): the disk, the cache and one run
\* ------------------------------------------------------------------------
\* project-relative paths the structures, the cache and the disk talk about
Paths == {"a.ts", "b.ts"}

\* groupName of a run or of a cache entry; NoGroup is `undefined`
NoGroup == "undefined"

GroupNames == {"app", NoGroup}

\* what is found at a path of the disk
AbsentPath == [kind |-> "absent", content |-> "", size |-> 0]

DirectoryPath == [kind |-> "dir", content |-> "", size |-> 0]

FileOf(content, size) == [kind |-> "file", content |-> content, size |-> size]

\* fs.existsSync(abs); statSafeSync(abs) is not null
ExistsSync(d) == d.kind # "absent"

\* stats.isFile() of a path that exists
IsFile(d) == d.kind = "file"

\* sizePromptThreshold ?? config.sizePromptThreshold ?? 128 * 1024,
\* with neither override given
threshold == 128 * 1024

\* the cache: CacheManager.get(path) is undefined or an entry;
\* CacheManager.delete(path) leaves NoCacheEntry at the path
NoCacheEntry == [present |-> FALSE, groupName |-> NoGroup, createdByStub |-> FALSE, sizeAtCreate |-> 0]

\* the entry cache.set records for a file just created
CacheSet(group, stubName, size) ==
    [present |-> TRUE, groupName |-> group, createdByStub |-> stubName, sizeAtCreate |-> size]

\* an entry of the structure at a path: none, a directory, a file, or a file
\* with an effective stub
EntryKinds == {"none", "dir", "file", "stub"}

\* desiredPaths after the creation loop
DesiredPaths(entries) == {p \in Paths : entries[p] # "none"}

\* the interactiveDelete callback: absent, or answering per path
NoInteractive == [present |-> FALSE, answer |-> [p \in Paths |-> "delete"]]

Interactives ==
    {NoInteractive} \cup {[present |-> TRUE, answer |-> a] : a \in [Paths -> {"keep", "delete"}]}

\* the outcome of the run for one path
PathOutcome(d, c, isCreated, isKept, hookNames) ==
    [disk |-> d, cache |-> c, created |-> isCreated, kept |-> isKept, hooks |-> hookNames]

\* the file written for a new path: the rendered stub, or the empty string
RenderedFile(stubName) == IF stubName THEN FileOf("stub", 1) ELSE FileOf("", 0)

\* handleDir: ensureDirSync creates the directory unless the path exists
handleDir(d, c) ==
    PathOutcome(IF ExistsSync(d) THEN d ELSE DirectoryPath, c, FALSE, FALSE, {})

handleFile_Overwrite(d, c, stubName, group) ==
    PathOutcome(RenderedFile(stubName),
                CacheSet(group, stubName, RenderedFile(stubName).size),
                TRUE, FALSE,
                {"preCreateFile", "postCreateFile"}
                    \cup (IF stubName THEN {"preStub", "postStub"} ELSE {}))

\* handleFile: an existing path is skipped; otherwise the file is written,
\* recorded in the cache, and the create and stub hooks run
handleFile(d, c, stubName, group) ==
    IF ExistsSync(d)
    THEN PathOutcome(d, c, FALSE, FALSE, {})
    ELSE PathOutcome(RenderedFile(stubName),
                     CacheSet(group, stubName, RenderedFile(stubName).size),
                     TRUE, FALSE,
                     {"preCreateFile", "postCreateFile"}
                         \cup (IF stubName THEN {"preStub", "postStub"} ELSE {}))

\* walk: dispatch on the entry type
walk(kind, d, c, group) ==
    IF kind = "dir" THEN handleDir(d, c) ELSE handleFile(d, c, kind = "stub", group)

\* the deletion pass without the group filter
SkipByGroup_Never(c, group) == FALSE

\* the group filter of the deletion pass: TRUE when the cached path is left
\* to another group
SkipByGroup(c, group) ==
    IF group # NoGroup
    THEN ~c.present \/ c.groupName # group
    ELSE c.present /\ c.groupName # NoGroup

\* a cached path whose file is gone, or is no file: drop the entry only
DropStale_KeepEntry(d, c) == PathOutcome(d, c, FALSE, FALSE, {})

DropStale(d, c) == PathOutcome(d, NoCacheEntry, FALSE, FALSE, {})

\* the user answered "keep": the file stays, the entry goes
KeepFile_KeepEntry(d, c) == PathOutcome(d, c, FALSE, TRUE, {"preDeleteFile"})

KeepFile(d, c) == PathOutcome(d, NoCacheEntry, FALSE, TRUE, {"preDeleteFile"})

\* shouldDelete: fs.unlinkSync inside try/catch (a failing unlink leaves the
\* file), drop the entry, run postDeleteFile
DeleteFile(d, c, unlinkThrows) ==
    PathOutcome(IF unlinkThrows THEN d ELSE AbsentPath, NoCacheEntry, FALSE, FALSE,
                {"preDeleteFile", "postDeleteFile"})

\* the deletion pass for one path of cache.allPaths(); the callback is asked
\* when the file is larger than the threshold and a callback was supplied
DeletionPass(desired, d, c, group, interactive, answer, unlinkThrows) ==
    IF ~c.present \/ SkipByGroup(c, group) \/ desired
    THEN PathOutcome(d, c, FALSE, FALSE, {})
    ELSE IF ~ExistsSync(d) \/ ~IsFile(d)
         THEN DropStale(d, c)
         ELSE IF d.size > threshold /\ interactive.present /\ answer = "keep"
              THEN KeepFile(d, c)
              ELSE DeleteFile(d, c, unlinkThrows)

\* applyStructure({structure, cache, groupName, interactiveDelete}) on a
\* disk: per path, the creation loop, then the deletion pass over the cache
\* as the creation loop left it
applyStructure(entries, fs, cm, group, interactive, unlinkThrows) ==
    [p \in Paths |->
        IF entries[p] # "none"
        THEN walk(entries[p], fs[p], cm[p], group)
        ELSE DeletionPass(FALSE, fs[p], cm[p], group, interactive,
                          interactive.answer[p], unlinkThrows)]

\* what the latest step was: a run, with the callback it was given and the
\* hooks it ran, or an edit of the user
RunReport(interactive, r) ==
    [ran |-> TRUE,
     interactive |-> interactive,
     hooks |-> UNION {{<<h, p>> : h \in r[p].hooks} : p \in Paths}]

NoRun == [ran |-> FALSE, interactive |-> NoInteractive, hooks |-> {}]

\* ------------------------------------------------------------------------
\* watchScaffold (src/src/core/watcher.ts): debounced, non-overlapping runs
\* ------------------------------------------------------------------------
\* timer    : the timeout the `timer` handle refers to has not fired yet
\* orphans  : timeouts still armed whose handle was overwritten
\* inflight : calls of runOnce that have started and not yet settled
\* wlog     : "completed" / "failed" as logged, one per settled run
Watch ==
    [timer |-> timer, orphans |-> orphans, running |-> running, pending |-> pending,
     inflight |-> inflight]

\* run(): a call while a run is in progress only sets the pending flag
run_NoGuard(w) == [w EXCEPT !.running = TRUE, !.inflight = @ + 1]

run(w) ==
    IF w.running
    THEN [w EXCEPT !.pending = TRUE]
    ELSE [w EXCEPT !.running = TRUE, !.inflight = @ + 1]

\* scheduleRun(): clearTimeout(timer); timer = setTimeout(run, debounceMs)
scheduleRun(w) == [w EXCEPT !.timer = TRUE]

\* the finally block of run(): the handle is overwritten without clearing
\* the timeout it referred to
finally_NoRearm(w) == [w EXCEPT !.running = FALSE, !.pending = FALSE]

finally(w) ==
    IF w.pending
    THEN [w EXCEPT !.running = FALSE, !.pending = FALSE, !.timer = TRUE,
                   !.orphans = IF w.timer THEN @ + 1 ELSE @]
    ELSE [w EXCEPT !.running = FALSE]

\* the closure variables of watchScaffold before the first scheduleRun()
WatchIdle ==
    /\ timer = FALSE
    /\ orphans = 0
    /\ running = FALSE
    /\ pending = FALSE
    /\ inflight = 0
    /\ wlog = <<>>

SetWatch(w) ==
    /\ timer' = w.timer
    /\ orphans' = w.orphans
    /\ running' = w.running
    /\ pending' = w.pending
    /\ inflight' = w.inflight

\* ------------------------------------------------------------------------
\* The state machine: one call of an entry point on a text
\* ------------------------------------------------------------------------
ApplyIdle ==
    /\ disk = [p \in Paths |-> AbsentPath]
    /\ cache = [p \in Paths |-> NoCacheEntry]
    /\ structure = [p \in Paths |-> "none"]
    /\ groupName = NoGroup
    /\ lastRun = NoRun
    /\ createdEver = {}
    /\ kept = {}

InitResults ==
    /\ ApplyIdle
    /\ WatchIdle
    /\ pc = "start"
    /\ ast = NoAst
    /\ astMode = "loose"
    /\ ff = NoText
    /\ out = <<>>
    /\ out2 = <<>>

\* a text handed to one of the two parsers
Init ==
    /\ indentStep \in IndentSteps
    /\ text \in StructTexts \cup TabTexts \cup ContentTexts
    /\ opts = DefaultOptions(indentStep)
    /\ InitResults

\* a text handed to the formatter with its options: structural and tab texts
\* under the default options, content texts under every combination of the
\* boolean options, end-of-line texts under every combination and both modes
InitFormat ==
    /\ \/ text \in StructTexts \cup TabTexts /\ opts = DefaultOptions(DefaultIndentStep)
       \/ /\ text \in ContentTexts
          /\ opts \in {o \in UNION {AllOptions(step) : step \in IndentSteps} : o.mode = "loose"}
       \/ text \in EolTexts /\ opts \in UNION {AllOptions(step) : step \in IndentSteps}
    /\ indentStep = opts.indentStep
    /\ InitResults

\* parseStructureAst(text, {indentStep, mode})
ParseAst(mode) ==
    /\ pc = "start"
    /\ ast' = parseStructureAst(text, indentStep, mode)
    /\ astMode' = mode
    /\ pc' = "ast"
    /\ UNCHANGED <<text, indentStep, ff, opts, out, out2, applyVars, watchVars>>

\* parseStructureText(fileName, text, indentStep)
ParseText ==
    /\ pc = "start"
    /\ ff' = parseStructureText(text, indentStep)
    /\ pc' = "text"
    /\ UNCHANGED <<text, indentStep, ast, astMode, opts, out, out2, applyVars, watchVars>>

\* formatStructureText(text, opts)
Format ==
    /\ pc = "start"
    /\ LET r == formatStructureText(text, opts)
       IN  out' = r.text /\ ast' = r.ast
    /\ astMode' = opts.mode
    /\ pc' = "formatted"
    /\ UNCHANGED <<text, indentStep, ff, opts, out2, applyVars, watchVars>>

\* formatStructureText(first.text, opts): formatting the formatted text
Reformat ==
    /\ pc = "formatted"
    /\ out2' = formatStructureText(out, opts).text
    /\ pc' = "reformatted"
    /\ UNCHANGED <<text, indentStep, ast, astMode, ff, opts, out, applyVars, watchVars>>

Next ==
    \/ \E mode \in Modes : ParseAst(mode)
    \/ ParseText

NextFormat ==
    \/ Format
    \/ Reformat

\* the recovery parser alone, on the nested family
InitNested ==
    /\ indentStep \in IndentSteps
    /\ text \in NestedTexts
    /\ opts = DefaultOptions(indentStep)
    /\ InitResults

NextNested == \E mode \in Modes : ParseAst(mode)

\* the recovery parser alone, on the annotation family
InitAnnotated ==
    /\ indentStep = DefaultIndentStep
    /\ text \in AnnotatedTexts
    /\ opts = DefaultOptions(indentStep)
    /\ InitResults

SpecAnnotated == InitAnnotated /\ [][NextNested]_vars

\* the recovery parser alone, on the mixed family
InitMixed ==
    /\ indentStep = DefaultIndentStep
    /\ text \in MixedTexts
    /\ opts = DefaultOptions(indentStep)
    /\ InitResults

SpecMixed == InitMixed /\ [][NextNested]_vars

Spec == Init /\ [][Next]_vars

SpecNested == InitNested /\ [][NextNested]_vars

SpecFormat == InitFormat /\ [][NextFormat]_vars

\* ---- the apply state machine: runs of applyStructure on a project whose
\* ---- structure file and files the user edits between the runs
\* the entry points of the structure-file subsystem, not called here
ParserIdle ==
    /\ text = <<>>
    /\ indentStep = DefaultIndentStep
    /\ opts = DefaultOptions(DefaultIndentStep)
    /\ pc = "start"
    /\ ast = NoAst
    /\ astMode = "loose"
    /\ ff = NoText
    /\ out = <<>>
    /\ out2 = <<>>

\* a project before the first run: an empty cache, the structure of the
\* group to apply, and whatever the user has at the paths
InitApply ==
    /\ ParserIdle
    /\ disk \in [Paths -> {AbsentPath, DirectoryPath, FileOf("user", threshold),
                           FileOf("user", threshold + 1)}]
    /\ cache = [p \in Paths |-> NoCacheEntry]
    /\ structure \in [Paths -> EntryKinds]
    /\ groupName \in GroupNames
    /\ lastRun = NoRun
    /\ createdEver = {}
    /\ kept = {}
    /\ WatchIdle

\* await applyStructure({structure, cache, groupName, interactiveDelete})
Apply(interactive, unlinkThrows) ==
    /\ LET Done(r) ==
               /\ disk' = [p \in Paths |-> r[p].disk]
               /\ cache' = [p \in Paths |-> r[p].cache]
               /\ lastRun' = RunReport(interactive, r)
               /\ createdEver' = createdEver \cup {p \in Paths : r[p].created}
               /\ kept' = (kept \cup {p \in Paths : r[p].kept}) \ {p \in Paths : r[p].created}
       IN  Done(applyStructure(structure, disk, cache, groupName, interactive, unlinkThrows))
    /\ UNCHANGED <<structure, groupName, parserVars, watchVars>>

\* between two runs the user writes a file, or removes a file or a directory
UserEdit(p, d) ==
    /\ disk[p] # d
    /\ IsFile(d) => disk[p].kind # "dir"
    /\ disk' = [disk EXCEPT ![p] = d]
    /\ lastRun' = NoRun
    /\ UNCHANGED <<cache, structure, groupName, createdEver, kept, parserVars, watchVars>>

\* the user edits the structure file: one entry is added, removed or changed
EditStructure(p, kind) ==
    /\ structure[p] # kind
    /\ structure' = [structure EXCEPT ![p] = kind]
    /\ lastRun' = NoRun
    /\ UNCHANGED <<disk, cache, groupName, createdEver, kept, parserVars, watchVars>>

\* the next run applies the structure of another group
SwitchGroup(group) ==
    /\ groupName # group
    /\ groupName' = group
    /\ lastRun' = NoRun
    /\ UNCHANGED <<disk, cache, structure, createdEver, kept, parserVars, watchVars>>

NextApply ==
    \/ \E interactive \in Interactives, unlinkThrows \in BOOLEAN : Apply(interactive, unlinkThrows)
    \/ \E p \in Paths, d \in {AbsentPath, FileOf("user", threshold), FileOf("user", threshold + 1)} :
          UserEdit(p, d)
    \/ \E p \in Paths, kind \in EntryKinds : EditStructure(p, kind)
    \/ \E group \in GroupNames : SwitchGroup(group)

SpecApply == InitApply /\ [][NextApply]_vars

\* ---- the watcher state machine
\* watchScaffold(cwd, options) has returned: the initial scheduleRun() armed
\* the timer
InitWatch ==
    /\ ParserIdle
    /\ ApplyIdle
    /\ timer = TRUE
    /\ orphans = 0
    /\ running = FALSE
    /\ pending = FALSE
    /\ inflight = 0
    /\ wlog = <<>>

\* chokidar reports an interesting file: scheduleRun(); the files stop
\* changing once MaxRuns runs have started
FileEvent ==
    /\ Len(wlog) + inflight < MaxRuns
    /\ SetWatch(scheduleRun(Watch))
    /\ UNCHANGED <<wlog, parserVars, applyVars>>

\* an armed timeout fires and calls run(): the one the handle refers to, or
\* one whose handle was overwritten
TimerFires(current) ==
    /\ IF current THEN timer ELSE orphans > 0
    /\ SetWatch(run(IF current THEN [Watch EXCEPT !.timer = FALSE]
                               ELSE [Watch EXCEPT !.orphans = @ - 1]))
    /\ UNCHANGED <<wlog, parserVars, applyVars>>

\* the awaited runOnce settles, resolved or rejected; the rest of run()
RunSettles(outcome) ==
    /\ inflight > 0
    /\ wlog' = Append(wlog, outcome)
    /\ SetWatch(finally([Watch EXCEPT !.inflight = @ - 1]))
    /\ UNCHANGED <<parserVars, applyVars>>

NextWatch ==
    \/ FileEvent
    \/ \E current \in BOOLEAN : TimerFires(current)
    \/ \E outcome \in {"completed", "failed"} : RunSettles(outcome)

SpecWatch == InitWatch /\ [][NextWatch]_vars

\* every armed timeout fires after debounceMs and every runOnce settles
SpecWatchLive ==
    /\ SpecWatch
    /\ \A current \in BOOLEAN : WF_vars(TimerFires(current))
    /\ WF_vars(\E outcome \in {"completed", "failed"} : RunSettles(outcome))

\* ------------------------------------------------------------------------
\* Vocabulary of the properties
\* ------------------------------------------------------------------------
EntryLineNos(a) == {i \in 1..Len(a.lines) : a.lines[i].kind = "entry"}

NodeIds(a) == 1..Len(a.nodes)

NodesOfLine(a, ln) == {id \in NodeIds(a) : a.nodes[id].line = ln}

NodeOfLine(a, ln) == CHOOSE id \in NodeIds(a) : a.nodes[id].line = ln

\* the places a node occupies: slots of rootNodes (parent 0) or of a children list
PlacesOf(a, id) ==
    {<<0, k>> : k \in {j \in 1..Len(a.rootNodes) : a.rootNodes[j] = id}}
    \cup {<<p, k>> \in NodeIds(a) \X NodeIds(a) :
             k <= Len(a.nodes[p].children) /\ a.nodes[p].children[k] = id}

\* the entry line before entry line ln, 0 if there is none
PrevEntryLine(a, ln) ==
    IF \E j \in EntryLineNos(a) : j < ln
    THEN CHOOSE j \in EntryLineNos(a) : j < ln /\ \A k \in EntryLineNos(a) : k < ln => k <= j
    ELSE 0

DiagIdxAt(a, ln, code) ==
    {k \in 1..Len(a.diagnostics) : a.diagnostics[k].line = ln /\ a.diagnostics[k].code = code}

HasCode(a, code) == \E k \in 1..Len(a.diagnostics) : a.diagnostics[k].code = code

\* the path token of an entry line: first token before the inline comment
PathTokenOf(line) ==
    SplitWs(Trim(extractInlineCommentParts(line.content).contentWithoutComment))[1]

\* ------------------------------------------------------------------------
\* C3: every entry line produces exactly one node, every node occupies
\* exactly one place of the tree, the depth-first pre-order walk of rootNodes
\* visits the nodes in ascending source-line order, and therefore the number
\* of flattened nodes equals the number of entry lines (the formatter's
\* count-mismatch fallback is not taken); in both modes.
\* ------------------------------------------------------------------------
C3_WellFormedTree ==
    pc = "ast" =>
        LET flat == flattenAstNodes(ast.rootNodes, 0, ast.nodes)
        IN  /\ \A ln \in 1..Len(ast.lines) :
                   Cardinality(NodesOfLine(ast, ln))
                       = (IF ast.lines[ln].kind = "entry" THEN 1 ELSE 0)
            /\ \A id \in NodeIds(ast) : Cardinality(PlacesOf(ast, id)) = 1
            /\ \A k \in 1..(Len(flat) - 1) :
                   ast.nodes[flat[k].node].line < ast.nodes[flat[k + 1].node].line
            /\ Len(flat) = Cardinality(EntryLineNos(ast))
            /\ Len(flat) = Len(ast.nodes)

C3_Witness ==
    /\ pc = "ast"
    /\ Len(ast.nodes) >= 2
    /\ Len(ast.lines) > Len(ast.nodes)
    /\ \E id \in NodeIds(ast) : ast.nodes[id].depth = 1 /\ ast.nodes[id].parent # 0
    /\ HasCode(ast, "indent-skip-level")

\* ------------------------------------------------------------------------
\* C4: in loose mode an entry line indented deeper than the entry line just
\* before it, that line being a file, gets a child-of-file-loose diagnostic at
\* its line, the depth and the parent of the file, the place right after the
\* file's last sibling; and no file node has children.
\* ------------------------------------------------------------------------
C4_ChildOfFileBecomesSibling ==
    (pc = "ast" /\ astMode = "loose") =>
        /\ \A ln \in EntryLineNos(ast) :
               LET pl == PrevEntryLine(ast, ln)
               IN  (/\ pl # 0
                    /\ ast.lines[ln].indentSpaces > ast.lines[pl].indentSpaces
                    /\ ~EndsWith(PathTokenOf(ast.lines[pl]), <<"/">>))
                   => /\ DiagIdxAt(ast, ln, "child-of-file-loose") # {}
                      /\ NodesOfLine(ast, ln) # {}
                      /\ NodesOfLine(ast, pl) # {}
                      /\ LET n == ast.nodes[NodeOfLine(ast, ln)]
                             f == ast.nodes[NodeOfLine(ast, pl)]
                             sibs == IF n.parent = 0 THEN ast.rootNodes
                                     ELSE ast.nodes[n.parent].children
                         IN  /\ f.type = "file"
                             /\ n.depth = f.depth
                             /\ n.parent = f.parent
                             /\ \E k \in 1..(Len(sibs) - 1) :
                                    /\ sibs[k] = NodeOfLine(ast, pl)
                                    /\ sibs[k + 1] = NodeOfLine(ast, ln)
        /\ \A id \in NodeIds(ast) :
               ast.nodes[id].type = "file" =>
                   /\ ast.nodes[id].children = <<>>
                   /\ \A c \in NodeIds(ast) : ast.nodes[c].parent # id

C4_Witness ==
    /\ pc = "ast"
    /\ astMode = "loose"
    /\ \E ln \in EntryLineNos(ast) :
           /\ DiagIdxAt(ast, ln, "child-of-file-loose") # {}
           /\ ast.nodes[NodeOfLine(ast, ln)].depth = 1
           /\ ast.nodes[NodeOfLine(ast, ln)].parent # 0

\* ------------------------------------------------------------------------
\* Comparing the two parsers
\* ------------------------------------------------------------------------
StructuralCodes ==
    {"indent-skip-level", "indent-misaligned", "child-of-file-loose", "child-of-file",
     "path-colon", "missing-parent"}

HasStructuralDiag(a) ==
    \E k \in 1..Len(a.diagnostics) : a.diagnostics[k].code \in StructuralCodes

\* pre-order list of (path, kind, level) of the recovery parser's tree
AstShape(a) ==
    LET flat == flattenAstNodes(a.rootNodes, 0, a.nodes)
    IN  [k \in 1..Len(flat) |->
            <<a.nodes[flat[k].node].path, a.nodes[flat[k].node].type, flat[k].level>>]

RECURSIVE FlattenEntries(_, _, _)
FlattenEntries(ids, level, entries) ==
    IF ids = <<>> THEN <<>>
    ELSE <<<<entries[Head(ids)].path, entries[Head(ids)].type, level>>>>
         \o FlattenEntries(entries[Head(ids)].children, level + 1, entries)
         \o FlattenEntries(Tail(ids), level, entries)

\* pre-order list of (path, kind, level) of the fail-fast parser's tree
TextShape(r) == FlattenEntries(r.rootEntries, 0, r.entries)

\* the line a single pass in source order rejects first: for each line in
\* turn, the colon rule and then the indentation rules against the entries
\* accepted so far; 0 when every line is accepted
RECURSIVE FirstViolationFrom(_, _, _, _)
FirstViolationFrom(rawLines, i, fs, step) ==
    IF i > Len(rawLines) THEN 0
    ELSE LET p == parseLine(rawLines[i], i)
         IN  IF p.isNull THEN FirstViolationFrom(rawLines, i + 1, fs, step)
             ELSE IF p.threw \/ BuildError(p, step, fs) # "none" THEN i
             ELSE FirstViolationFrom(rawLines, i + 1, BuildStep(fs, p, step), step)

FirstViolation(t, step) ==
    FirstViolationFrom(SplitLines(t), 1,
        [err |-> NoError, entries |-> <<>>, rootEntries |-> <<>>, stack |-> <<>>], step)

\* ------------------------------------------------------------------------
\* C5: parseStructureText throws exactly when parseStructureAst reports a
\* structural diagnostic, and when neither objects both yield the same tree
\* of (path, kind) entries in the same order.
\* ------------------------------------------------------------------------
C5_ParsersAgreeOnValidity ==
    pc = "text" =>
        LET a == parseStructureAst(text, indentStep, "loose")
        IN  /\ ff.threw <=> HasStructuralDiag(a)
            /\ ~ff.threw => TextShape(ff) = AstShape(a)

\* ------------------------------------------------------------------------
\* C6: parseStructureText throws exactly when the text holds a structural
\* violation, and its error names the first violating line in source order.
\* ------------------------------------------------------------------------
C6_FailFastNamesFirstViolation ==
    pc = "text" =>
        /\ ff.threw <=> FirstViolation(text, indentStep) # 0
        /\ ff.threw => ff.errLine = FirstViolation(text, indentStep)
        /\ ff.threw => ff.rootEntries = <<>>

\* ------------------------------------------------------------------------
\* C7: strict and loose mode of parseStructureAst build the same tree and
\* report diagnostics on the same lines with the same codes in the same
\* order; only the severity differs: structural codes warning (loose) and
\* error (strict), indent-tabs info (loose) and warning (strict),
\* unknown-annotation info in both; every entry line is parsed in both.
\* ------------------------------------------------------------------------
ExpectedSeverity(code, mode) ==
    IF code = "unknown-annotation" THEN "info"
    ELSE IF code = "indent-tabs" THEN (IF mode = "strict" THEN "warning" ELSE "info")
    ELSE (IF mode = "strict" THEN "error" ELSE "warning")

C8_SkipLevelReportedAndRejected ==
    (pc = "ast" /\ astMode = "loose") =>
        \A ln \in EntryLineNos(ast) :
            LET pl == PrevEntryLine(ast, ln)
            IN  (pl # 0 /\ ast.lines[ln].indentSpaces - ast.lines[pl].indentSpaces > indentStep)
                => /\ \E k \in DiagIdxAt(ast, ln, "indent-skip-level") :
                          ast.diagnostics[k].severity = "warning"
                   /\ ast.nodes[NodeOfLine(ast, ln)].depth
                          = ast.nodes[NodeOfLine(ast, pl)].depth + 1
                   /\ parseStructureText(text, indentStep).threw
                   /\ parseStructureText(text, indentStep).errLine = ln

\* ------------------------------------------------------------------------
\* C9: every entry line whose path token contains ':' (anywhere in the token,
\* at any depth) gets exactly one path-colon diagnostic, at its own 1-based
\* line number, in both modes, and still produces its node with the colon
\* kept in the name; parseStructureText rejects every text with such a line.
\* ------------------------------------------------------------------------
ColonLines(lines) ==
    {ln \in 1..Len(lines) : lines[ln].kind = "entry" /\ Includes(PathTokenOf(lines[ln]), ":")}

C9_PathColonReported ==
    /\ pc = "ast" =>
           /\ \A ln \in ColonLines(ast.lines) :
                  /\ Cardinality(DiagIdxAt(ast, ln, "path-colon")) = 1
                  /\ Cardinality(NodesOfLine(ast, ln)) = 1
                  /\ ast.nodes[NodeOfLine(ast, ln)].name = PathTokenOf(ast.lines[ln])
           /\ \A k \in 1..Len(ast.diagnostics) :
                  ast.diagnostics[k].code = "path-colon"
                      => ast.diagnostics[k].line \in ColonLines(ast.lines)
    /\ pc = "text" =>
           (ColonLines(ClassifyLines(SplitLines(text), indentStep)) # {} => ff.threw)

C9_Witness ==
    /\ pc = "ast"
    /\ \E ln \in ColonLines(ast.lines) :
           /\ ln > 1
           /\ ast.nodes[NodeOfLine(ast, ln)].depth = 1
           /\ Head(PathTokenOf(ast.lines[ln])) # ":"
           /\ DiagIdxAt(ast, ln, "path-colon") # {}

\* ------------------------------------------------------------------------
\* Vocabulary of the formatter's properties
\* ------------------------------------------------------------------------
\* the lines of a text as the parser classifies them
LinesOf(t) == ClassifyLines(SplitLines(t), indentStep)

InlineCommentOf(line) == extractInlineCommentParts(line.content).inlineComment

\* stub, include and exclude of the nodes, in source order
AnnotationsOf(a) ==
    [id \in NodeIds(a) |-> <<a.nodes[id].stub, a.nodes[id].include, a.nodes[id].exclude>>]

HasAnnotations(a) ==
    \E id \in NodeIds(a) :
        a.nodes[id].stub # Undef \/ a.nodes[id].include # Undef \/ a.nodes[id].exclude # Undef

\* ------------------------------------------------------------------------
\* C1: formatStructureText is idempotent: under fixed options, formatting
\* the formatted text returns the identical text, for well-formed texts and
\* for texts repaired in recovery (skipped levels, misaligned dedents,
\* entries under files, tabs, inline comments).
\* ------------------------------------------------------------------------
C1_FormatIdempotent == pc = "reformatted" => out2 = out

C1_Witness ==
    /\ pc = "reformatted"
    /\ out # text
    /\ out2 = out
    /\ HasStructuralDiag(ast)
    /\ Len(ast.nodes) >= 2

\* ------------------------------------------------------------------------
\* C2: the formatted text has as many lines as the input, every line keeps
\* its kind, blank and full-line comment lines are unchanged but for removed
\* trailing spaces and tabs, and an entry line that had an inline comment
\* ends with that comment verbatim after exactly one space.
\* ------------------------------------------------------------------------
C2_NonStructuralLinesPreserved ==
    pc = "formatted" =>
        LET inL == LinesOf(text)
            outL == LinesOf(out)
        IN  /\ Len(outL) = Len(inL)
            /\ \A i \in 1..Len(inL) :
                   /\ i <= Len(outL)
                   /\ outL[i].kind = inL[i].kind
                   /\ inL[i].kind # "entry" =>
                          outL[i].raw = (IF opts.trimTrailingWhitespace
                                         THEN StripTrailingBlanks(inL[i].raw)
                                         ELSE inL[i].raw)
                   /\ (inL[i].kind = "entry" /\ InlineCommentOf(inL[i]) # Undef) =>
                          LET c == InlineCommentOf(inL[i])
                              n == Len(outL[i].raw) - Len(c)
                          IN  /\ n >= 2
                              /\ SubSeq(outL[i].raw, n + 1, Len(outL[i].raw)) = c
                              /\ outL[i].raw[n] = " "
                              /\ outL[i].raw[n - 1] \notin {" ", "\t"}

C2_Witness ==
    /\ pc = "formatted"
    /\ out # text
    /\ \E i \in 1..Len(ast.lines) : ast.lines[i].kind = "comment"
    /\ \E i \in 1..Len(ast.lines) :
           ast.lines[i].kind = "entry" /\ InlineCommentOf(ast.lines[i]) # Undef

\* ------------------------------------------------------------------------
\* C10: formatting never loses annotations: for either value of
\* normalizeAnnotations, parsing the formatted text gives every node the stub,
\* the include list and the exclude list that parsing the original text gives.
\* ------------------------------------------------------------------------
C10_AnnotationsSurviveFormatting ==
    pc = "formatted" =>
        AnnotationsOf(parseStructureAst(out, indentStep, opts.mode)) = AnnotationsOf(ast)

\* ------------------------------------------------------------------------
\* C11: with mode 'strict' formatStructureText keeps the indentation of
\* every entry line as it is in the input and only normalises trailing
\* whitespace and line endings.
\* ------------------------------------------------------------------------
C11_StrictKeepsIndentation ==
    (pc = "formatted" /\ opts.mode = "strict") =>
        LET inL == LinesOf(text)
            outL == LinesOf(out)
        IN  /\ Len(outL) = Len(inL)
            /\ \A i \in 1..Len(inL) :
                   (i <= Len(outL) /\ inL[i].kind = "entry") =>
                       LineMatch(outL[i].raw).indentRaw = LineMatch(inL[i].raw).indentRaw

\* ------------------------------------------------------------------------
\* C17: in both modes every root node has depth 0, every other node has a
\* directory as parent and its parent's depth + 1; when a node is attached
\* the stack popped to its depth has exactly that length and holds the chain
\* of open directories; missing-parent and child-of-file are never reported.
\* ------------------------------------------------------------------------
ParseStateBefore(a, ln) ==
    EntryLoop([nodes |-> <<>>, rootNodes |-> <<>>, stack |-> <<>>, diagnostics |-> <<>>,
               ctx |-> InitDepthCtx],
              SubSeq(a.lines, 1, ln - 1), a.options.indentStep, a.options.mode)

IndentCodes ==
    {"indent-skip-level", "indent-misaligned", "child-of-file-loose", "child-of-file",
     "missing-parent"}

C19_FormatRepairsIndentation ==
    pc = "formatted" =>
        LET b == parseStructureAst(out, indentStep, opts.mode)
        IN  /\ \A k \in 1..Len(b.diagnostics) : b.diagnostics[k].code \notin IndentCodes
            /\ Len(b.nodes) = Len(ast.nodes)
            /\ \A id \in NodeIds(ast) :
                   /\ id <= Len(b.nodes)
                   /\ b.nodes[id].type = ast.nodes[id].type
                   /\ b.nodes[id].name = ast.nodes[id].name
                   /\ b.nodes[id].depth = ast.nodes[id].depth
                   /\ b.nodes[id].parent = ast.nodes[id].parent

C19_Witness ==
    /\ pc = "formatted"
    /\ HasCode(ast, "child-of-file-loose")
    /\ HasCode(ast, "indent-misaligned")
    /\ Len(ast.nodes) = 3

\* ------------------------------------------------------------------------
\* C20: on a dedent the depth is max(previousDepth - round(diff / indentStep), 0)
\* with diff = previous width - width and halves rounded up, indent-misaligned
\* is reported at the line exactly when diff is not a multiple of indentStep,
\* and only the entry line just before (its width and depth) matters.
\* ------------------------------------------------------------------------
C20_DedentDepth ==
    pc = "ast" =>
        \A ln \in EntryLineNos(ast) :
            LET pl == PrevEntryLine(ast, ln)
            IN  (pl # 0 /\ ast.lines[ln].indentSpaces < ast.lines[pl].indentSpaces) =>
                    LET diff == ast.lines[pl].indentSpaces - ast.lines[ln].indentSpaces
                        steps == (2 * diff + indentStep) \div (2 * indentStep)
                        prevDepth == ast.nodes[NodeOfLine(ast, pl)].depth
                        want == IF prevDepth - steps > 0 THEN prevDepth - steps ELSE 0
                    IN  /\ NodesOfLine(ast, ln) # {}
                        /\ ast.nodes[NodeOfLine(ast, ln)].depth = want
                        /\ (DiagIdxAt(ast, ln, "indent-misaligned") # {})
                               <=> (diff % indentStep # 0)
                        /\ Cardinality(DiagIdxAt(ast, ln, "indent-misaligned")) <= 1

C20_Witness ==
    /\ pc = "ast"
    /\ \E ln \in EntryLineNos(ast) :
           LET pl == PrevEntryLine(ast, ln)
           IN  /\ pl # 0
               /\ 2 * (ast.lines[pl].indentSpaces - ast.lines[ln].indentSpaces) = indentStep
               /\ ast.nodes[NodeOfLine(ast, pl)].depth = 2
               /\ ast.nodes[NodeOfLine(ast, ln)].depth = 1
               /\ DiagIdxAt(ast, ln, "indent-misaligned") # {}

\* ------------------------------------------------------------------------
\* C12: applyStructure never overwrites or modifies a file that already
\* exists on disk: a desired path that exists is skipped, no hook runs for
\* it and it is not added to the cache; and a run only unlinks paths that
\* have a cache entry, which are paths scaffold created in this or an
\* earlier run.
\* ------------------------------------------------------------------------
C12_ExistingFilesUntouched ==
    [][lastRun'.ran =>
        \A p \in Paths :
            /\ (ExistsSync(disk[p]) /\ structure[p] \in {"file", "stub"}) =>
                   /\ disk'[p] = disk[p]
                   /\ cache'[p] = cache[p]
                   /\ \A hp \in lastRun'.hooks : hp[2] # p
            /\ (IsFile(disk[p]) /\ disk'[p] # disk[p]) =>
                   /\ disk'[p] = AbsentPath
                   /\ cache[p].present
                   /\ p \in createdEver]_vars

\* a run skipped a desired path holding a file of the user that scaffold
\* never created, and unlinked another path
C12_Witness ==
    /\ lastRun.ran
    /\ \E p, q \in Paths :
           /\ structure[p] = "file"
           /\ disk[p].content = "user"
           /\ p \notin createdEver
           /\ ~cache[p].present
           /\ <<"postDeleteFile", q>> \in lastRun.hooks
           /\ ~ExistsSync(disk[q])

\* ------------------------------------------------------------------------
\* C13: when no interactiveDelete callback is supplied, a cached file that
\* is no longer in the structure and is larger than the size threshold is
\* skipped: the file stays on disk and its entry is removed from the cache.
\* ------------------------------------------------------------------------
C13_LargeFilesSkippedWithoutCallback ==
    [][(lastRun'.ran /\ ~lastRun'.interactive.present) =>
        \A p \in Paths :
            (/\ cache[p].present
             /\ cache[p].groupName = groupName
             /\ structure[p] = "none"
             /\ IsFile(disk[p])
             /\ disk[p].size > threshold) =>
                disk'[p] = disk[p] /\ ~cache'[p].present]_vars

\* ------------------------------------------------------------------------
\* C14: when a cached file is no longer in the structure, exceeds the
\* threshold and interactiveDelete answers 'keep', the file is left on
\* disk, its cache entry is removed and postDeleteFile does not run; and
\* from then on no run deletes or changes that file, whatever structure is
\* applied, unless scaffold creates the path again.
\* ------------------------------------------------------------------------
C14_KeptFilesStay ==
    [][lastRun'.ran =>
        \A p \in Paths :
            /\ (/\ cache[p].present
                /\ cache[p].groupName = groupName
                /\ structure[p] = "none"
                /\ IsFile(disk[p])
                /\ disk[p].size > threshold
                /\ lastRun'.interactive.present
                /\ lastRun'.interactive.answer[p] = "keep") =>
                   /\ disk'[p] = disk[p]
                   /\ ~cache'[p].present
                   /\ <<"postDeleteFile", p>> \notin lastRun'.hooks
                   /\ p \in kept'
            /\ (p \in kept /\ ExistsSync(disk[p])) =>
                   /\ disk'[p] = disk[p]
                   /\ p \in kept']_vars

\* a kept file survived a later run that deleted another path: it is large,
\* not in the structure, and the latest run had no callback answering 'keep'
\* for it
C14_Witness ==
    /\ lastRun.ran
    /\ \E p, q \in Paths :
           /\ p \in kept
           /\ p \in createdEver
           /\ IsFile(disk[p])
           /\ disk[p].size > threshold
           /\ structure[p] = "none"
           /\ lastRun.interactive.answer[p] = "delete"
           /\ <<"postDeleteFile", q>> \in lastRun.hooks
           /\ ~ExistsSync(disk[q])

\* ------------------------------------------------------------------------
\* C15: applying a structure is idempotent: a run directly after a run, with
\* the same structure, the same group and the disk as the first run left it,
\* creates no file, deletes no file, runs no hook and leaves the cache
\* unchanged; and after every run each cache entry of the applied group is
\* one of the desired paths.
\* ------------------------------------------------------------------------
C15_ApplyIdempotent ==
    /\ [][(lastRun.ran /\ lastRun'.ran) =>
            /\ disk' = disk
            /\ cache' = cache
            /\ lastRun'.hooks = {}]_vars
    /\ [](lastRun.ran =>
            \A p \in Paths :
                (cache[p].present /\ cache[p].groupName = groupName) =>
                    p \in DesiredPaths(structure))

\* a run that found nothing to do on a project where scaffold owns a file of
\* the applied group and another group owns a file that is not in the
\* structure
C15_Witness ==
    /\ lastRun.ran
    /\ lastRun.hooks = {}
    /\ \E p, q \in Paths :
           /\ cache[p].present
           /\ cache[p].groupName = groupName
           /\ IsFile(disk[p])
           /\ cache[q].present
           /\ cache[q].groupName # groupName
           /\ structure[q] = "none"
           /\ IsFile(disk[q])

\* ------------------------------------------------------------------------
\* C16: in watch mode runs never overlap: whatever the interleaving of file
\* events, timer firings and settling runs (resolved or rejected), at most
\* one runOnce is in flight; a timer that fires while a run is in progress
\* starts no run and only sets the pending flag.
\* ------------------------------------------------------------------------
C16_RunsNeverOverlap ==
    /\ [](inflight <= 1 /\ (running <=> inflight = 1))
    /\ [][(running /\ ((timer /\ ~timer') \/ orphans' < orphans)) =>
            /\ inflight' = inflight
            /\ running'
            /\ pending'
            /\ wlog' = wlog]_vars

\* a timer fired during a run that followed a failed run, while a timeout
\* whose handle was overwritten is still armed
C16_Witness ==
    /\ running
    /\ pending
    /\ inflight = 1
    /\ orphans > 0
    /\ \E i \in 1..Len(wlog) : wlog[i] = "failed"

\* ------------------------------------------------------------------------
\* C21: an entry line with indentation greater than zero that has no viable
\* ancestor (no earlier entry line is indented less, as when the first entry
\* line of the text is itself indented) gets a missing-parent diagnostic at
\* its line, warning in loose mode and error in strict mode, and its node is
\* attached as a root.
\* ------------------------------------------------------------------------
C21_MissingParentReported ==
    pc = "ast" =>
        \A ln \in EntryLineNos(ast) :
            (/\ ast.lines[ln].indentSpaces > 0
             /\ \A j \in EntryLineNos(ast) :
                    j < ln => ast.lines[j].indentSpaces >= ast.lines[ln].indentSpaces)
            => /\ \E k \in DiagIdxAt(ast, ln, "missing-parent") :
                      ast.diagnostics[k].severity
                          = (IF astMode = "strict" THEN "error" ELSE "warning")
               /\ NodesOfLine(ast, ln) # {}
               /\ ast.nodes[NodeOfLine(ast, ln)].parent = 0
               /\ \E k \in 1..Len(ast.rootNodes) : ast.rootNodes[k] = NodeOfLine(ast, ln)

\* ------------------------------------------------------------------------
\* C22: parseStructureAst names the child-under-file violation by mode: an
\* entry line indented deeper than the entry line just before it, that line
\* being a file, gets a diagnostic with code child-of-file and severity
\* error in strict mode, and code child-of-file-loose and severity warning
\* in loose mode.
\* ------------------------------------------------------------------------
C22_ChildOfFileNamedByMode ==
    pc = "ast" =>
        \A ln \in EntryLineNos(ast) :
            LET pl == PrevEntryLine(ast, ln)
            IN  (/\ pl # 0
                 /\ ast.lines[ln].indentSpaces > ast.lines[pl].indentSpaces
                 /\ ~EndsWith(PathTokenOf(ast.lines[pl]), <<"/">>))
                => IF astMode = "strict"
                   THEN /\ \E k \in DiagIdxAt(ast, ln, "child-of-file") :
                               ast.diagnostics[k].severity = "error"
                        /\ DiagIdxAt(ast, ln, "child-of-file-loose") = {}
                   ELSE /\ \E k \in DiagIdxAt(ast, ln, "child-of-file-loose") :
                               ast.diagnostics[k].severity = "warning"
                        /\ DiagIdxAt(ast, ln, "child-of-file") = {}

\* ------------------------------------------------------------------------
\* C26: a blank line or a full-line comment line never has a diagnostic
\* reported at its line number, whatever its leading whitespace (spaces or
\* tabs, any width).
\* ------------------------------------------------------------------------
C26_NoDiagnosticsOnCommentLines ==
    pc = "ast" =>
        \A k \in 1..Len(ast.diagnostics) :
            ast.diagnostics[k].line \in EntryLineNos(ast)

\* ------------------------------------------------------------------------
\* C28: in watch mode no change is lost: when timers fire and runs settle,
\* every file event (it leaves the timer armed) is eventually followed by a
\* runOnce that starts after it, whether it arrives while a run is in
\* progress or after a run that threw.
\* ------------------------------------------------------------------------
C28_NoChangeLost ==
    \A n \in 0..(2 * MaxRuns) :
        (timer /\ Len(wlog) + inflight = n) ~> (Len(wlog) + inflight > n)

\* an event arrived while a run was in progress, after a run that failed
C28_Witness ==
    /\ timer
    /\ running
    /\ Len(wlog) > 0
    /\ wlog[Len(wlog)] = "failed"

\* ------------------------------------------------------------------------
\* C29: in watch mode at most one debounce timeout is armed at any time:
\* every scheduling of a run cancels the one scheduled before.
\* ------------------------------------------------------------------------
C29_OneTimerArmed ==
    (IF timer THEN 1 ELSE 0) + orphans <= 1

\* ------------------------------------------------------------------------
\* C25: tree construction is append-only: processing an entry line changes
\* no field of a node created for an earlier line other than its children,
\* keeps every children list and rootNodes as a prefix of what it becomes,
\* adds exactly one node, at the end of exactly one children list or of
\* rootNodes, and keeps the diagnostics reported so far as a prefix of the
\* diagnostics list.
\* ------------------------------------------------------------------------
C25_AppendOnly ==
    pc = "ast" =>
        LET IsPrefix(s, t) == Len(s) <= Len(t) /\ SubSeq(t, 1, Len(s)) = s
            Grown(s, t, id) == t = Append(s, id)
            Step(before, after, ln) ==
                LET old == 1..Len(before.nodes)
                    new == Len(after.nodes)
                    grownLists ==
                        {p \in old : after.nodes[p].children # before.nodes[p].children}
                IN  /\ new = Len(before.nodes) + 1
                    /\ after.nodes[new].line = ln
                    /\ after.nodes[new].children = <<>>
                    /\ \A id \in old :
                           /\ [after.nodes[id] EXCEPT !.children = <<>>]
                                  = [before.nodes[id] EXCEPT !.children = <<>>]
                           /\ IsPrefix(before.nodes[id].children, after.nodes[id].children)
                    /\ IsPrefix(before.rootNodes, after.rootNodes)
                    /\ IF after.nodes[new].parent = 0
                       THEN /\ Grown(before.rootNodes, after.rootNodes, new)
                            /\ grownLists = {}
                       ELSE /\ after.rootNodes = before.rootNodes
                            /\ grownLists = {after.nodes[new].parent}
                            /\ Grown(before.nodes[after.nodes[new].parent].children,
                                     after.nodes[after.nodes[new].parent].children,
                                     new)
                    /\ IsPrefix(before.diagnostics, after.diagnostics)
            RECURSIVE Walk(_, _)
            Walk(before, ln) ==
                LET Line(after) ==
                        /\ ast.lines[ln].kind = "entry" => Step(before, after, ln)
                        /\ Walk(after, ln + 1)
                IN  IF ln > Len(ast.lines)
                    THEN before.nodes = ast.nodes /\ before.rootNodes = ast.rootNodes
                    ELSE Line(EntryStep(before, ast.lines[ln], ast.options.indentStep,
                                        ast.options.mode))
        IN  Walk(ParseStateBefore(ast, 1), 1)

\* a directory receives a second child on a line that reports a diagnostic,
\* after an earlier line has reported one
C25_Witness ==
    /\ pc = "ast"
    /\ \E id \in NodeIds(ast) :
           /\ Len(ast.nodes[id].children) >= 2
           /\ \E k \in 1..Len(ast.diagnostics) :
                  ast.diagnostics[k].line
                      = ast.nodes[ast.nodes[id].children[2]].line
           /\ \E k \in 1..Len(ast.diagnostics) :
                  ast.diagnostics[k].line
                      < ast.nodes[ast.nodes[id].children[2]].line

C27_CommentLinesDoNotInfluence ==
    pc = "ast" =>
        LET raws == SplitLines(text)
            IsNoise(r) ==
                \/ Trim(r) = <<>>
                \/ StartsWith(Trim(r), <<"#">>)
                \/ StartsWith(Trim(r), <<"/", "/">>)
            keep == SelectSeq([i \in 1..Len(raws) |-> i], LAMBDA i : ~IsNoise(raws[i]))
            Same(b) ==
                LET onEntries ==
                        SelectSeq(ast.diagnostics,
                                  LAMBDA d : \E k \in 1..Len(keep) : keep[k] = d.line)
                IN  /\ Len(ast.nodes) = Len(b.nodes)
                    /\ ast.rootNodes = b.rootNodes
                    /\ \A id \in NodeIds(b) :
                           /\ id <= Len(ast.nodes)
                           /\ [ast.nodes[id] EXCEPT !.line = 0] = [b.nodes[id] EXCEPT !.line = 0]
                           /\ b.nodes[id].line <= Len(keep)
                           /\ ast.nodes[id].line = keep[b.nodes[id].line]
                    /\ Len(onEntries) = Len(b.diagnostics)
                    /\ \A k \in 1..Len(b.diagnostics) :
                           /\ k <= Len(onEntries)
                           /\ b.diagnostics[k].line <= Len(keep)
                           /\ onEntries[k]
                                  = [b.diagnostics[k] EXCEPT !.line = keep[b.diagnostics[k].line]]
        IN  /\ \A id \in NodeIds(ast) : ~IsNoise(raws[ast.nodes[id].line])
            /\ Same(parseStructureAst(Join([k \in 1..Len(keep) |-> raws[keep[k]]], <<"\n">>),
                                      indentStep, astMode))

\* a directory, an indented comment line, and a child that reports a
\* diagnostic
C27_Witness ==
    /\ pc = "ast"
    /\ Len(ast.lines) = 3
    /\ ast.lines[2].kind = "comment"
    /\ ast.lines[2].indentSpaces > 2
    /\ Len(ast.nodes) = 2
    /\ ast.nodes[2].parent = 1
    /\ ast.nodes[2].line = 3
    /\ \E k \in 1..Len(ast.diagnostics) : ast.diagnostics[k].line = 3

\* ------------------------------------------------------------------------
\* C30: deletion is group-scoped: a run of applyStructure for a group (or
\* without a group) never unlinks a file and never removes a cache entry
\* whose groupName differs from the run's, in any order of runs and groups;
\* when the path is absent from the run's structure, the file and the entry
\* are left exactly as they were; an entry of another group changes only
\* when the run itself creates the missing file at a path of its structure.
\* ------------------------------------------------------------------------
C30_DeletionIsGroupScoped ==
    [][lastRun'.ran =>
          \A p \in Paths :
              (cache[p].present /\ cache[p].groupName # groupName) =>
                  /\ cache'[p].present
                  /\ ExistsSync(disk[p]) => (disk'[p] = disk[p] /\ cache'[p] = cache[p])
                  /\ structure[p] = "none" => (disk'[p] = disk[p] /\ cache'[p] = cache[p])
                  /\ p \notin kept'
                  /\ \A h \in {"preDeleteFile", "postDeleteFile"} :
                         <<h, p>> \notin lastRun'.hooks]_vars

\* a run that deleted its own file and left the file of another group, which
\* its structure does not list
C30_Witness ==
    /\ lastRun.ran
    /\ \E p, q \in Paths :
           /\ <<"postDeleteFile", q>> \in lastRun.hooks
           /\ ~ExistsSync(disk[q])
           /\ structure[p] = "none"
           /\ cache[p].present
           /\ cache[p].groupName # groupName
           /\ IsFile(disk[p])

====
